---- MODULE Spec2Model ----
(***************************************************************************)
(* Row-partitioned image resampling and filtering over an MPI process      *)
(* group (main.cpp).  Rank 0 decodes the image, broadcasts its metadata,   *)
(* scatters row blocks, every rank resamples and filters its block, rank 0 *)
(* gathers the blocks and encodes the result.                              *)
(*                                                                         *)
(* Bytes are integers 0..255, buffers are sequences (index i of the code   *)
(* is index i+1 here).  Collectives follow MPI semantics: a receiver       *)
(* cannot leave a broadcast or scatter before the root has entered it, the *)
(* root cannot leave the gather before every rank has contributed, and     *)
(* nothing else is synchronised.                                           *)
(***************************************************************************)
EXTENDS Integers, Sequences, FiniteSets, TLC

\* ---------------------------------------------------------------- bounds
MaxSize == 3
MaxWidth == 2
MaxHeight == 4
MaxChannels == 1
MaxNewHeight == 4
MaxBlockWidth == 1
MaxBlockHeight == 2
MaxBlockChannels == 2
MaxFilterSteps == 2
MaxRows == 4
MaxPlanHeight == 7
MaxPlanNewHeight == 8
MaxPlanSize == 5
MaxPlanWidth == 2
MaxPlanChannels == 1

\* ------------------------------------------------------- program constants
MaxByte == 255
BrightnessDelta == 50
ContrastPivot == 128
\* 1.2f as an IEEE-754 binary32 value is FactorMantissa * 2^-23
FactorMantissa == 10066330
TwoTo23 == 8388608
TwoTo24 == 16777216
TwoTo30 == 1073741824

Min(a, b) == IF a < b THEN a ELSE b

\* the filter names the prompt offers, an unrecognised name, a recognised
\* name in another case, and the value of a default-constructed std::string
FilterKinds == {"invert", "brightness", "contrast", "blur", "Invert", ""}

\* what a user types at the filter prompt of rank 0
PromptKinds == {"invert", "brightness", "contrast", "blur"}

\* n pixel bytes, a ramp from seed: no two bytes of a buffer are equal
Pixels(seed, n) == [i \in 1..n |-> (seed + 61 * (i - 1)) % (MaxByte + 1)]

\* the bytes stbi_load returns for an image of n bytes
DecodedPixels(n) == Pixels(0, n)

\* ------------------------------------------------------------ resize_rows
\* a read of data[i]; outside the vector the value is indeterminate (-1)
ReadByte(data, i) == IF i >= 0 /\ i < Len(data) THEN data[i + 1] ELSE -1

\* SrcRow as it would be with the quotient rounded up
SrcRow_RoundUp(y, inHeight, outHeight) ==
    (y * inHeight + outHeight - 1) \div outHeight

\* SrcRow as it would be with the row index off by one
SrcRow_OffByOne(y, inHeight, outHeight) == ((y + 1) * inHeight) \div outHeight

SrcRow(y, inHeight, outHeight) == (y * inHeight) \div outHeight

resize_rows(data, w, inHeight, outHeight, ch) ==
    [k \in 1..(w * outHeight * ch) |->
        LET idx  == k - 1
            c    == idx % ch
            x    == (idx \div ch) % w
            y    == idx \div (ch * w)
            srcY == SrcRow(y, inHeight, outHeight)
        IN  ReadByte(data, (srcY * w + x) * ch + c)]

\* ----------------------------------------------------------- apply_filter
\* Invert as it would be with the negation -data[i] stored in a byte
Invert_Negate(p) == (MaxByte + 1 - p) % (MaxByte + 1)

Invert(p) == MaxByte - p

\* Brightness as it would be without the clamp, the sum stored in a byte
Brightness_Wraps(p) == (p + BrightnessDelta) % (MaxByte + 1)

Brightness(p) ==
    LET val == p + BrightnessDelta
    IN  IF val > MaxByte THEN MaxByte ELSE val

\* round a non-negative integer a < 2^31 to 24 significant bits, ties to even
\* (the rounding of every binary32 operation)
Quantum(a) == CHOOSE q \in {1, 2, 4, 8, 16, 32, 64, 128} :
                  /\ a \div q < TwoTo24
                  /\ (q = 1 \/ a \div q >= TwoTo23)

RoundTiesEven(a, q) ==
    LET lo   == a \div q
        rem  == a % q
        half == q \div 2
    IN  IF q = 1 THEN a
        ELSE IF rem > half \/ (rem = half /\ lo % 2 = 1) THEN (lo + 1) * q
        ELSE lo * q

Round24(a) == RoundTiesEven(a, Quantum(a))

\* five times the real number (p - 128) * 1.2 + 128
ContrastTimes5(p) == (p - ContrastPivot) * 6 + 5 * ContrastPivot

\* ContrastVal as it would be with std::round in place of the cast
ContrastVal_Rounded(p) ==
    LET x5 == ContrastTimes5(p)
    IN  IF x5 >= 0 THEN (2 * x5 + 5) \div 10 ELSE -((5 - 2 * x5) \div 10)

\* static_cast<int>((data[i] - 128) * factor + 128) in binary32 arithmetic,
\* the values in units of 2^-23
ContrastVal(p) ==
    LET d    == p - ContrastPivot
        mag  == IF d < 0 THEN -d ELSE d
        prod == Round24(mag * FactorMantissa)
    IN  IF d >= 0
        THEN \* 128 + prod: in [2^30, 2^31) units the quantum is 2^7
             IF prod >= TwoTo30 THEN 256
             ELSE LET lo  == TwoTo23 + prod \div 128
                      rem == prod % 128
                      up  == rem > 64 \/ (rem = 64 /\ lo % 2 = 1)
                  IN  (IF up THEN lo + 1 ELSE lo) \div 65536
        ELSE LET s == TwoTo30 - prod
             IN  IF s <= 0 THEN -((Round24(-s)) \div TwoTo23)
                 ELSE Round24(s) \div TwoTo23

Contrast(p) ==
    LET val == ContrastVal(p)
    IN  IF val < 0 THEN 0 ELSE IF val > MaxByte THEN MaxByte ELSE val

\* FilterByte as it would be with a comparison that ignores case
FilterByte_IgnoreCase(p, kind) ==
    IF kind \in {"invert", "Invert"} THEN Invert(p)
    ELSE IF kind = "brightness" THEN Brightness(p)
    ELSE IF kind = "contrast" THEN Contrast(p)
    ELSE p

FilterByte(p, kind) ==
    IF kind = "invert" THEN Invert(p)
    ELSE IF kind = "brightness" THEN Brightness(p)
    ELSE IF kind = "contrast" THEN Contrast(p)
    ELSE p

apply_filter(data, w, h, ch, kind) ==
    [i \in 1..Len(data) |-> IF i <= w * h * ch THEN FilterByte(data[i], kind)
                            ELSE data[i]]

\* ------------------------------------------- partition arithmetic of main
RowsPerProc(h, n) == h \div n

Remainder(h, n) == h % n

LocalInHeight(rank, h, n) ==
    RowsPerProc(h, n) + (IF rank < Remainder(h, n) THEN 1 ELSE 0)

\* StartRow as it would be without the share of the remainder
StartRow_NoRemainder(rank, h, n) == rank * RowsPerProc(h, n)

StartRow(rank, h, n) == rank * RowsPerProc(h, n) + Min(rank, Remainder(h, n))

\* LocalOutHeight as it would be with the quotient rounded up
LocalOutHeight_RoundUp(newH, localInH, h) == (newH * localInH + h - 1) \div h

LocalOutHeight(newH, localInH, h) == (newH * localInH) \div h

\* the running offset of the two table loops: the sum of counts[1..i]
RECURSIVE Offset(_, _)
Offset(counts, i) == IF i = 0 THEN 0 ELSE Offset(counts, i - 1) + counts[i]

\* the tables are indexed by rank + 1
\* SendCounts as it would be without the remainder rows
SendCounts_Even(h, n, w, ch) == [i \in 1..n |-> (h \div n) * w * ch]

SendCounts(h, n, w, ch) ==
    [i \in 1..n |-> LocalInHeight(i - 1, h, n) * w * ch]

RecvCounts(h, newH, n, w, ch) ==
    [i \in 1..n |-> LocalOutHeight(newH, LocalInHeight(i - 1, h, n), h) * w * ch]

\* Displs as it would be with the offset advanced before it is stored
Displs_Inclusive(counts) == [i \in 1..Len(counts) |-> Offset(counts, i)]

Displs(counts) == [i \in 1..Len(counts) |-> Offset(counts, i - 1)]

\* std::vector::resize: keep the first n bytes, or pad with zero bytes
VectorResize(v, n) == [i \in 1..n |-> IF i <= Len(v) THEN v[i] ELSE 0]

\* the buffer after a block has been received at byte offset displ; the
\* bytes that fall behind the end of buf are not part of buf
PlaceBlock(buf, block, displ) ==
    [j \in 1..Len(buf) |->
        IF j > displ /\ j <= displ + Len(block) THEN block[j - displ] ELSE buf[j]]

RECURSIVE PlaceBlocks(_, _, _, _)
PlaceBlocks(buf, blocks, dsp, i) ==
    IF i = 0 THEN buf
    ELSE PlaceBlock(PlaceBlocks(buf, blocks, dsp, i - 1), blocks[i - 1], dsp[i])

\* ------------------------------------------------------------------ state
VARIABLES
    size,           \* MPI_Comm_size
    inputStatus,    \* what rank 0 will find: "ok", "missing", "undecodable"
    pc,             \* rank -> the next statement of main the rank executes
    width, height, channels, newWidth, newHeight,   \* rank -> int
    filterType,     \* rank -> string
    raw,            \* what stbi_load returned: [w, h, c, data]
    fullImage,      \* rank 0's image buffer
    localInHeight, startRow, localIn,               \* rank -> ...
    localOutHeight, localResized,                   \* rank -> ...
    sendCounts, displs, recvCounts, recvDispls,     \* rank 0's tables
    bcastNet,       \* the values rank 0 has broadcast, in order
    scattered,      \* rank 0 has entered MPI_Scatterv
    scatterNet,     \* rank -> the block sent to it
    gathered,       \* the ranks that have entered MPI_Gatherv
    gatherNet,      \* rank -> the block it contributed
    outFile,        \* the images written by stbi_write_jpg
    blk,            \* a block under the filter or the resampler alone
    plan            \* the partition tables computed alone

pvars == <<size, inputStatus, pc, width, height, channels, newWidth, newHeight,
           filterType, raw, fullImage, localInHeight, startRow, localIn,
           localOutHeight, localResized, sendCounts, displs, recvCounts,
           recvDispls, bcastNet, scattered, scatterNet, gathered, gatherNet,
           outFile>>

vars == <<pvars, blk, plan>>

Ranks == 0..(size - 1)

NoImage == [w |-> 0, h |-> 0, c |-> 0, data |-> <<>>]

\* blk: a buffer with its dimensions, the operation applied last (op) with
\* the buffer and height before it, and the operation before that
NoBlock == [data |-> <<>>, width |-> 0, height |-> 0, channels |-> 0,
            op |-> "none", prev |-> <<>>, prevHeight |-> 0,
            op2 |-> "none", prev2 |-> <<>>, steps |-> 0]

\* plan: the inputs of the partition arithmetic, what each rank computed
\* for itself (local), and rank 0's four tables
NoLocal == [done |-> FALSE, localInHeight |-> 0, startRow |-> 0,
            localInBytes |-> 0, localOutHeight |-> 0]

NoPlan == [height |-> 0, newHeight |-> 0, size |-> 0, width |-> 0,
           channels |-> 0, local |-> <<>>, sent |-> FALSE, sendCounts |-> <<>>,
           displs |-> <<>>, received |-> FALSE, recvCounts |-> <<>>,
           recvDispls |-> <<>>]

\* the state of every rank on entering main (lines 58-70), n ranks
Start(n, status) ==
    /\ size = n
    /\ inputStatus = status
    /\ pc = [r \in 0..(n - 1) |-> IF r = 0 THEN "read" ELSE "bcast1"]
    /\ width = [r \in 0..(n - 1) |-> 0]
    /\ height = [r \in 0..(n - 1) |-> 0]
    /\ channels = [r \in 0..(n - 1) |-> 0]
    /\ newWidth = [r \in 0..(n - 1) |-> 0]
    /\ newHeight = [r \in 0..(n - 1) |-> 0]
    /\ filterType = [r \in 0..(n - 1) |-> ""]
    /\ raw = NoImage
    /\ fullImage = <<>>
    /\ localInHeight = [r \in 0..(n - 1) |-> 0]
    /\ startRow = [r \in 0..(n - 1) |-> 0]
    /\ localIn = [r \in 0..(n - 1) |-> <<>>]
    /\ localOutHeight = [r \in 0..(n - 1) |-> 0]
    /\ localResized = [r \in 0..(n - 1) |-> <<>>]
    /\ sendCounts = [i \in 1..n |-> 0]
    /\ displs = [i \in 1..n |-> 0]
    /\ recvCounts = [i \in 1..n |-> 0]
    /\ recvDispls = [i \in 1..n |-> 0]
    /\ bcastNet = <<>>
    /\ scattered = FALSE
    /\ scatterNet = [r \in 0..(n - 1) |-> <<>>]
    /\ gathered = {}
    /\ gatherNet = [r \in 0..(n - 1) |-> <<>>]
    /\ outFile = <<>>

Init ==
    /\ \E n \in 1..MaxSize, status \in {"ok", "missing", "undecodable"} :
           Start(n, status)
    /\ blk = NoBlock
    /\ plan = NoPlan

\* ------------------------------------------------------- rank 0: input
ProtoIdle == UNCHANGED <<blk, plan>>

\* AllAborted as it would be with exit(1) in place of MPI_Abort
AllAborted_OnlyCaller == [r \in Ranks |-> IF r = 0 THEN "aborted" ELSE pc[r]]

\* MPI_Abort(MPI_COMM_WORLD, 1): every process of the group is terminated
AllAborted == [r \in Ranks |-> "aborted"]

\* lines 72-80: the input file does not exist
AbortFileNotFound ==
    /\ pc[0] = "read"
    /\ inputStatus = "missing"
    /\ pc' = AllAborted
    /\ UNCHANGED <<size, inputStatus, width, height, channels, newWidth,
                   newHeight, filterType, raw, fullImage, localInHeight,
                   startRow, localIn, localOutHeight, localResized, sendCounts,
                   displs, recvCounts, recvDispls, bcastNet, scattered,
                   scatterNet, gathered, gatherNet, outFile>>
    /\ ProtoIdle

\* lines 72-98: the file exists, the prompts are answered, stbi_load fails
AbortLoadFailed ==
    /\ pc[0] = "read"
    /\ inputStatus = "undecodable"
    /\ \E kind \in PromptKinds, nw \in 0..MaxWidth, nh \in 0..MaxNewHeight :
          /\ filterType' = [filterType EXCEPT ![0] = kind]
          /\ newWidth' = [newWidth EXCEPT ![0] = nw]
          /\ newHeight' = [newHeight EXCEPT ![0] = nh]
    /\ pc' = AllAborted
    /\ UNCHANGED <<size, inputStatus, width, height, channels, raw, fullImage,
                   localInHeight, startRow, localIn, localOutHeight,
                   localResized, sendCounts, displs, recvCounts, recvDispls,
                   bcastNet, scattered, scatterNet, gathered, gatherNet,
                   outFile>>
    /\ ProtoIdle

\* lines 72-107: the image is decoded, 0 stands for the original dimension
LoadImage ==
    /\ pc[0] = "read"
    /\ inputStatus = "ok"
    /\ \E w \in 1..MaxWidth, h \in 1..MaxHeight, c \in 1..MaxChannels,
          kind \in PromptKinds, nw \in 0..MaxWidth, nh \in 0..MaxNewHeight :
          /\ filterType' = [filterType EXCEPT ![0] = kind]
          /\ raw' = [w |-> w, h |-> h, c |-> c, data |-> DecodedPixels(w * h * c)]
          /\ fullImage' = DecodedPixels(w * h * c)
          /\ width' = [width EXCEPT ![0] = w]
          /\ height' = [height EXCEPT ![0] = h]
          /\ channels' = [channels EXCEPT ![0] = c]
          /\ newWidth' = [newWidth EXCEPT ![0] = IF nw = 0 THEN w ELSE nw]
          /\ newHeight' = [newHeight EXCEPT ![0] = IF nh = 0 THEN h ELSE nh]
    /\ pc' = [pc EXCEPT ![0] = "bcast1"]
    /\ UNCHANGED <<size, inputStatus, localInHeight, startRow, localIn,
                   localOutHeight, localResized, sendCounts, displs,
                   recvCounts, recvDispls, bcastNet, scattered, scatterNet,
                   gathered, gatherNet, outFile>>
    /\ ProtoIdle

\* ------------------------------------------------------------- MPI_Bcast
BcastPc == <<"bcast1", "bcast2", "bcast3", "bcast4", "bcast5">>

\* PcAfterBcast as it would be with the fifth broadcast left out
PcAfterBcast_Four(k) == IF k < 4 THEN BcastPc[k + 1] ELSE "scatter"

PcAfterBcast(k) == IF k < 5 THEN BcastPc[k + 1] ELSE "scatter"

\* the variable the k-th MPI_Bcast of lines 109-113 carries
BcastVar(k) == CASE k = 1 -> width
                 [] k = 2 -> height
                 [] k = 3 -> channels
                 [] k = 4 -> newWidth
                 [] k = 5 -> newHeight

\* rank r leaves its k-th broadcast with value v in the variable
BcastStore(r, k, v) ==
    /\ width' = IF k = 1 THEN [width EXCEPT ![r] = v] ELSE width
    /\ height' = IF k = 2 THEN [height EXCEPT ![r] = v] ELSE height
    /\ channels' = IF k = 3 THEN [channels EXCEPT ![r] = v] ELSE channels
    /\ newWidth' = IF k = 4 THEN [newWidth EXCEPT ![r] = v] ELSE newWidth
    /\ newHeight' = IF k = 5 THEN [newHeight EXCEPT ![r] = v] ELSE newHeight

\* the root sends its value and goes on
MPI_Bcast_root(k) ==
    /\ pc[0] = BcastPc[k]
    /\ bcastNet' = Append(bcastNet, BcastVar(k)[0])
    /\ pc' = [pc EXCEPT ![0] = PcAfterBcast(k)]
    /\ UNCHANGED <<size, inputStatus, width, height, channels, newWidth,
                   newHeight, filterType, raw, fullImage, localInHeight,
                   startRow, localIn, localOutHeight, localResized, sendCounts,
                   displs, recvCounts, recvDispls, scattered, scatterNet,
                   gathered, gatherNet, outFile>>
    /\ ProtoIdle

\* a non-root rank blocks until the root's k-th value has been sent
MPI_Bcast_recv(r, k) ==
    /\ r # 0
    /\ pc[r] = BcastPc[k]
    /\ Len(bcastNet) >= k
    /\ BcastStore(r, k, bcastNet[k])
    /\ pc' = [pc EXCEPT ![r] = PcAfterBcast(k)]
    /\ UNCHANGED <<size, inputStatus, filterType, raw, fullImage,
                   localInHeight, startRow, localIn, localOutHeight,
                   localResized, sendCounts, displs, recvCounts, recvDispls,
                   bcastNet, scattered, scatterNet, gathered, gatherNet,
                   outFile>>
    /\ ProtoIdle

\* ----------------------------------------------------------- MPI_Scatterv
\* lines 115-134 at rank 0: the partition, the send tables, the scatter
MPI_Scatterv_root ==
    /\ pc[0] = "scatter"
    /\ LET lih == LocalInHeight(0, height[0], size)
           sc  == SendCounts(height[0], size, width[0], channels[0])
           ds  == Displs(sc)
           net == [r \in Ranks |->
                      SubSeq(fullImage, ds[r + 1] + 1, ds[r + 1] + sc[r + 1])]
       IN  /\ localInHeight' = [localInHeight EXCEPT ![0] = lih]
           /\ startRow' = [startRow EXCEPT ![0] = StartRow(0, height[0], size)]
           /\ sendCounts' = sc
           /\ displs' = ds
           /\ scatterNet' = net
           /\ localIn' = [localIn EXCEPT ![0] =
                  VectorResize(net[0], lih * width[0] * channels[0])]
    /\ scattered' = TRUE
    /\ pc' = [pc EXCEPT ![0] = "gather"]
    /\ UNCHANGED <<size, inputStatus, width, height, channels, newWidth,
                   newHeight, filterType, raw, fullImage, localOutHeight,
                   localResized, recvCounts, recvDispls, bcastNet, gathered,
                   gatherNet, outFile>>
    /\ ProtoIdle

\* lines 115-134 at a non-root rank: its own partition, then the receive
MPI_Scatterv_recv(r) ==
    /\ r # 0
    /\ pc[r] = "scatter"
    /\ scattered
    /\ LET lih == LocalInHeight(r, height[r], size)
       IN  /\ localInHeight' = [localInHeight EXCEPT ![r] = lih]
           /\ startRow' = [startRow EXCEPT ![r] = StartRow(r, height[r], size)]
           /\ localIn' = [localIn EXCEPT ![r] =
                  VectorResize(scatterNet[r], lih * width[r] * channels[r])]
    /\ pc' = [pc EXCEPT ![r] = "gather"]
    /\ UNCHANGED <<size, inputStatus, width, height, channels, newWidth,
                   newHeight, filterType, raw, fullImage, localOutHeight,
                   localResized, sendCounts, displs, recvCounts, recvDispls,
                   bcastNet, scattered, scatterNet, gathered, gatherNet,
                   outFile>>
    /\ ProtoIdle

\* ------------------------------------------- resample, filter, MPI_Gatherv
\* lines 136-139 at rank r: the block the rank hands to MPI_Gatherv
OutHeightOf(r) == LocalOutHeight(newHeight[r], localInHeight[r], height[r])

ResizedOf(r) ==
    apply_filter(
        resize_rows(localIn[r], width[r], localInHeight[r], OutHeightOf(r),
                    channels[r]),
        width[r], OutHeightOf(r), channels[r], filterType[r])

\* lines 136-168 at a non-root rank: it contributes its block and leaves
MPI_Gatherv_send(r) ==
    /\ r # 0
    /\ pc[r] = "gather"
    /\ localOutHeight' = [localOutHeight EXCEPT ![r] = OutHeightOf(r)]
    /\ localResized' = [localResized EXCEPT ![r] = ResizedOf(r)]
    /\ gatherNet' = [gatherNet EXCEPT ![r] =
           SubSeq(ResizedOf(r), 1, OutHeightOf(r) * width[r] * channels[r])]
    /\ gathered' = gathered \cup {r}
    /\ pc' = [pc EXCEPT ![r] = "done"]
    /\ UNCHANGED <<size, inputStatus, width, height, channels, newWidth,
                   newHeight, filterType, raw, fullImage, localInHeight,
                   startRow, localIn, sendCounts, displs, recvCounts,
                   recvDispls, bcastNet, scattered, scatterNet, outFile>>
    /\ ProtoIdle

\* lines 141-151: the receive tables and the resized receive buffer
RootRecvCounts ==
    RecvCounts(height[0], newHeight[0], size, width[0], channels[0])

RootBuffer == VectorResize(fullImage, newWidth[0] * newHeight[0] * channels[0])

\* the gather writes behind the end of the receive buffer
GatherOverflows ==
    \E i \in 1..size :
        Displs(RootRecvCounts)[i] + RootRecvCounts[i] > Len(RootBuffer)

\* MPI_Gatherv at the root as it would be if it returned without waiting
AllContributed_NoWait == TRUE

\* MPI_Gatherv returns at the root once every other rank has contributed
AllContributed == gathered = Ranks \ {0}

\* lines 136-155 at rank 0, which blocks until every rank has contributed
RootGather(crash) ==
    /\ pc[0] = "gather"
    /\ AllContributed
    /\ localOutHeight' = [localOutHeight EXCEPT ![0] = OutHeightOf(0)]
    /\ localResized' = [localResized EXCEPT ![0] = ResizedOf(0)]
    /\ recvCounts' = RootRecvCounts
    /\ recvDispls' = Displs(RootRecvCounts)
    /\ gatherNet' = [gatherNet EXCEPT ![0] =
           SubSeq(ResizedOf(0), 1, OutHeightOf(0) * width[0] * channels[0])]
    /\ gathered' = gathered \cup {0}
    /\ fullImage' = IF crash THEN RootBuffer
                    ELSE PlaceBlocks(RootBuffer, gatherNet', recvDispls', size)
    /\ pc' = [pc EXCEPT ![0] = IF crash THEN "crashed" ELSE "write"]
    /\ UNCHANGED <<size, inputStatus, width, height, channels, newWidth,
                   newHeight, filterType, raw, localInHeight, startRow,
                   localIn, sendCounts, displs, bcastNet, scattered,
                   scatterNet, outFile>>
    /\ ProtoIdle

\* the gather returns; bytes received behind the end of the buffer are lost
MPI_Gatherv_root == RootGather(FALSE)

\* a write behind the end of fullImage is undefined: the process may die
MPI_Gatherv_crash == pc[0] = "gather" /\ GatherOverflows /\ RootGather(TRUE)

\* lines 157-168 at rank 0: stbi_write_jpg, the report, MPI_Finalize
WriteOutput ==
    /\ pc[0] = "write"
    /\ outFile' = Append(outFile,
           [w |-> newWidth[0], h |-> newHeight[0], c |-> channels[0],
            data |-> SubSeq(fullImage, 1,
                            newWidth[0] * newHeight[0] * channels[0])])
    /\ pc' = [pc EXCEPT ![0] = "done"]
    /\ UNCHANGED <<size, inputStatus, width, height, channels, newWidth,
                   newHeight, filterType, raw, fullImage, localInHeight,
                   startRow, localIn, localOutHeight, localResized, sendCounts,
                   displs, recvCounts, recvDispls, bcastNet, scattered,
                   scatterNet, gathered, gatherNet>>
    /\ ProtoIdle

Next ==
    \/ AbortFileNotFound
    \/ AbortLoadFailed
    \/ LoadImage
    \/ \E k \in 1..5 : MPI_Bcast_root(k)
    \/ \E r \in Ranks, k \in 1..5 : MPI_Bcast_recv(r, k)
    \/ MPI_Scatterv_root
    \/ \E r \in Ranks : MPI_Scatterv_recv(r)
    \/ \E r \in Ranks : MPI_Gatherv_send(r)
    \/ MPI_Gatherv_root
    \/ MPI_Gatherv_crash
    \/ WriteOutput

Spec == Init /\ [][Next]_vars

\* every rank is a process of its own: a rank that can step does step
FairSpec == Spec /\ WF_vars(Next)

\* ------------------------------------------- apply_filter on its own
ProtoUnused == UNCHANGED pvars

FilterInit ==
    /\ Start(1, "ok")
    /\ plan = NoPlan
    /\ \E seed \in 0..MaxByte, w \in 0..MaxBlockWidth, h \in 1..MaxBlockHeight,
          c \in 1..MaxBlockChannels :
          blk = [NoBlock EXCEPT !.data = Pixels(seed, w * h * c), !.width = w,
                                !.height = h, !.channels = c]

\* one call of apply_filter on the block
ApplyFilter(kind) ==
    /\ blk.steps < MaxFilterSteps
    /\ blk' = [blk EXCEPT
           !.data = apply_filter(blk.data, blk.width, blk.height, blk.channels,
                                 kind),
           !.op = kind, !.prev = blk.data, !.prevHeight = blk.height,
           !.op2 = blk.op, !.prev2 = blk.prev, !.steps = blk.steps + 1]
    /\ UNCHANGED plan
    /\ ProtoUnused

FilterNext == \E kind \in FilterKinds : ApplyFilter(kind)

FilterSpec == FilterInit /\ [][FilterNext]_vars

\* -------------------------------------------- resize_rows on its own
ResampleInit ==
    /\ Start(1, "ok")
    /\ plan = NoPlan
    /\ \E w \in 0..MaxBlockWidth, h \in 1..MaxRows, c \in 1..MaxBlockChannels :
          blk = [NoBlock EXCEPT !.data = DecodedPixels(w * h * c), !.width = w,
                                !.height = h, !.channels = c]

\* one call of resize_rows on a block of at least one row
Resize(outHeight) ==
    /\ blk.steps < MaxFilterSteps
    /\ blk.height >= 1
    /\ blk' = [blk EXCEPT
           !.data = resize_rows(blk.data, blk.width, blk.height, outHeight,
                                blk.channels),
           !.height = outHeight,
           !.op = "resize", !.prev = blk.data, !.prevHeight = blk.height,
           !.op2 = blk.op, !.prev2 = blk.prev, !.steps = blk.steps + 1]
    /\ UNCHANGED plan
    /\ ProtoUnused

ResampleNext == \E outHeight \in 0..MaxRows : Resize(outHeight)

ResampleSpec == ResampleInit /\ [][ResampleNext]_vars

\* ------------------------------------ the partition arithmetic on its own
PlanRanks == 0..(plan.size - 1)

PlanInit ==
    /\ Start(1, "ok")
    /\ blk = NoBlock
    /\ \E h \in 1..MaxPlanHeight, nh \in 0..MaxPlanNewHeight,
          n \in 1..MaxPlanSize, w \in 1..MaxPlanWidth, c \in 1..MaxPlanChannels :
          plan = [NoPlan EXCEPT !.height = h, !.newHeight = nh, !.size = n,
                                !.width = w, !.channels = c,
                                !.local = [r \in 0..(n - 1) |-> NoLocal],
                                !.sendCounts = [i \in 1..n |-> 0],
                                !.displs = [i \in 1..n |-> 0],
                                !.recvCounts = [i \in 1..n |-> 0],
                                !.recvDispls = [i \in 1..n |-> 0]]

\* lines 115-120 and 136 at rank r
PlanLocal(r) ==
    /\ ~plan.local[r].done
    /\ LET lih == LocalInHeight(r, plan.height, plan.size)
       IN  plan' = [plan EXCEPT !.local[r] =
               [done |-> TRUE,
                localInHeight |-> lih,
                startRow |-> StartRow(r, plan.height, plan.size),
                localInBytes |-> lih * plan.width * plan.channels,
                localOutHeight |->
                    LocalOutHeight(plan.newHeight, lih, plan.height)]]
    /\ UNCHANGED blk
    /\ ProtoUnused

\* lines 123-131 at rank 0
PlanSendTables ==
    /\ ~plan.sent
    /\ LET sc == SendCounts(plan.height, plan.size, plan.width, plan.channels)
       IN  plan' = [plan EXCEPT !.sent = TRUE, !.sendCounts = sc,
                                !.displs = Displs(sc)]
    /\ UNCHANGED blk
    /\ ProtoUnused

\* lines 141-149 at rank 0
PlanRecvTables ==
    /\ ~plan.received
    /\ LET rc == RecvCounts(plan.height, plan.newHeight, plan.size, plan.width,
                            plan.channels)
       IN  plan' = [plan EXCEPT !.received = TRUE, !.recvCounts = rc,
                                !.recvDispls = Displs(rc)]
    /\ UNCHANGED blk
    /\ ProtoUnused

PlanNext ==
    \/ \E r \in PlanRanks : PlanLocal(r)
    \/ PlanSendTables
    \/ PlanRecvTables

PlanSpec == PlanInit /\ [][PlanNext]_vars

\* ================================================================ claims
Recognised == {"invert", "brightness", "contrast"}

Terminated == \A r \in Ranks : pc[r] = "done"

\* C1: every rank, rank 0 and every other rank, applies the filter chosen at
\* the coordinator to its resampled block before the gather, so the block a
\* rank contributes is the filtered resample of the block it received.
C1_EveryRankAppliesChosenFilter ==
    \A r \in Ranks :
        r \in gathered =>
            gatherNet[r] =
                apply_filter(
                    resize_rows(localIn[r], width[r], localInHeight[r],
                                localOutHeight[r], channels[r]),
                    width[r], localOutHeight[r], channels[r], filterType[0])

\* ------------------------------------------------------------------- C2
PlanAllDone == \A r \in PlanRanks : plan.local[r].done

RECURSIVE SumInRows(_)
SumInRows(n) ==
    IF n = 0 THEN 0 ELSE SumInRows(n - 1) + plan.local[n - 1].localInHeight

\* the ranks whose input row range holds row y
InOwners(y) ==
    {r \in PlanRanks : /\ plan.local[r].startRow <= y
                       /\ y < plan.local[r].startRow + plan.local[r].localInHeight}

\* C2: the input row ranges [startRow_i, startRow_i + localInHeight_i) of the
\* ranks tile [0, height): contiguous in rank order, no overlap, no gap, the
\* row counts sum to height; rank i has base + 1 rows if i < height % size and
\* base rows otherwise, so two ranks' row counts differ by at most 1.
C2_InputRangesTile ==
    PlanAllDone =>
        LET L == plan.local
            n == plan.size
            h == plan.height
        IN  /\ L[0].startRow = 0
            /\ \A r \in 0..(n - 2) :
                   L[r + 1].startRow = L[r].startRow + L[r].localInHeight
            /\ L[n - 1].startRow + L[n - 1].localInHeight = h
            /\ \A y \in 0..(h - 1) : Cardinality(InOwners(y)) = 1
            /\ SumInRows(n) = h
            /\ \A r \in PlanRanks :
                   L[r].localInHeight =
                       (h \div n) + (IF r < h % n THEN 1 ELSE 0)
            /\ \A r, q \in PlanRanks :
                   L[r].localInHeight - L[q].localInHeight \in {-1, 0, 1}

\* three ranks or more, an uneven split, every rank has computed its range
C2_Witness ==
    /\ PlanAllDone
    /\ plan.size >= 3
    /\ plan.height > plan.size
    /\ plan.height % plan.size # 0

\* ------------------------------------------------------------------- C3
\* the ranks whose gathered block holds output row y (rows of width bytes)
OutOwners(y) ==
    LET rowBytes == plan.width * plan.channels
    IN  {i \in 1..plan.size :
            /\ plan.recvDispls[i] <= y * rowBytes
            /\ (y + 1) * rowBytes <= plan.recvDispls[i] + plan.recvCounts[i]}

\* C3: placed at the gather offsets, the ranks' output row ranges cover
\* [0, newHeight) without gap or overlap: every row of the output image is
\* written by exactly one rank's gathered block.
C3_OutputRangesCover ==
    (plan.received /\ plan.newHeight >= 1) =>
        \A y \in 0..(plan.newHeight - 1) : Cardinality(OutOwners(y)) = 1

\* ------------------------------------------------------------------- C4
InputBad == inputStatus \in {"missing", "undecodable"}

GroupAborted == \A r \in Ranks : pc[r] = "aborted"

\* no collective has delivered anything and nothing has been written
NothingDelivered ==
    /\ bcastNet = <<>>
    /\ ~scattered
    /\ gathered = {}
    /\ outFile = <<>>
    /\ \A r \in Ranks : pc[r] \in {"read", "bcast1", "aborted"}
    /\ \A r \in Ranks \ {0} : width[r] = 0 /\ localIn[r] = <<>>

\* C4: when the input file is missing or does not decode, the whole group
\* is aborted: no collective completes with image data, no output file is
\* written, and every rank terminates: until the group is aborted rank 0 is
\* able to abort it, and once rank 0 has acted no rank is left running.
C4_BadInputAbortsGroup ==
    InputBad =>
        /\ NothingDelivered
        /\ \/ GroupAborted
           \/ /\ pc[0] = "read"
              /\ ENABLED (AbortFileNotFound \/ AbortLoadFailed)

\* a group of several ranks aborted on a decode failure
C4_Witness ==
    /\ inputStatus = "undecodable"
    /\ size >= 2
    /\ GroupAborted

\* ------------------------------------------------------------------- C5
\* C5: when the input exists and decodes, no rank ends abnormally, the run
\* never stops before every rank has left main, and it then has persisted
\* exactly one output image.
C5_GoodInputTerminatesNormally ==
    inputStatus = "ok" =>
        /\ \A r \in Ranks : pc[r] \notin {"crashed", "aborted"}
        /\ Len(outFile) <= 1
        /\ (~ENABLED Next) => (Terminated /\ Len(outFile) = 1)

\* ------------------------------------------------------------------- C6
\* C6: with an unrecognised filter, when height is divisible by the number
\* of ranks and newHeight * localInputRows by height, the image assembled by
\* scatter, per-rank resample and gather is the nearest-neighbour resample
\* of the whole decoded image, no byte modified.
C6_EqualsWholeImageResample ==
    ( /\ pc[0] = "done"
      /\ filterType[0] \notin Recognised
      /\ height[0] % size = 0
      /\ (newHeight[0] * (height[0] \div size)) % height[0] = 0 )
    => /\ Len(outFile) = 1
       /\ outFile[1].data =
              resize_rows(raw.data, raw.w, raw.h, newHeight[0], raw.c)

\* ------------------------------------------------------------------- C7
\* C7: with more ranks than rows, every rank r >= height has no input row
\* and no output row, resamples to an empty block without an indeterminate
\* read, contributes no byte to the scatter or the gather, and the run
\* still completes.
C7_ZeroRowRanks ==
    (inputStatus = "ok" /\ pc[0] # "read" /\ size > height[0]) =>
        /\ \A r \in Ranks :
               r >= height[0] =>
                   /\ scattered => sendCounts[r + 1] = 0 /\ scatterNet[r] = <<>>
                   /\ pc[r] \in {"gather", "done", "write", "crashed"} =>
                          localInHeight[r] = 0 /\ localIn[r] = <<>>
                   /\ r \in gathered =>
                          /\ localOutHeight[r] = 0
                          /\ localResized[r] = <<>>
                          /\ gatherNet[r] = <<>>
                   /\ 0 \in gathered => recvCounts[r + 1] = 0
        /\ \A r \in Ranks : pc[r] # "crashed"
        /\ (~ENABLED Next) => (Terminated /\ Len(outFile) = 1)

\* ------------------------------------------------------------------- C8
\* C8: resize_rows with outHeight equal to inHeight returns its input, byte
\* for byte, for every width >= 0, height >= 1 and channel count >= 1.
C8_IdentityResize ==
    (blk.op = "resize" /\ blk.height = blk.prevHeight) => blk.data = blk.prev

\* an identity resize of a block of several rows and interleaved channels
C8_Witness ==
    /\ blk.op = "resize"
    /\ blk.height = blk.prevHeight
    /\ blk.height >= 2
    /\ blk.width >= 1
    /\ blk.channels >= 2

\* ------------------------------------------------------------------- C9
\* C9: one Invert maps every byte p of the block to 255 - p, and Invert
\* applied twice restores the block.
C9_InvertInvolution ==
    /\ blk.op = "invert" =>
           /\ Len(blk.data) = Len(blk.prev)
           /\ \A i \in 1..Len(blk.data) : blk.data[i] = 255 - blk.prev[i]
    /\ (blk.op = "invert" /\ blk.op2 = "invert") => blk.data = blk.prev2

\* Invert applied twice to a block of two bytes or more
C9_Witness ==
    /\ blk.op = "invert"
    /\ blk.op2 = "invert"
    /\ Len(blk.data) >= 2

\* ------------------------------------------------------------------ C10
ClampByte(v) == IF v < 0 THEN 0 ELSE IF v > 255 THEN 255 ELSE v

\* clamp(round(x)) and clamp(trunc(x)) of the real x = (p - 128) * 1.2 + 128
RoundedContrast(p) ==
    LET x5 == ContrastTimes5(p)
    IN  ClampByte(IF x5 < 0 THEN 0 ELSE (2 * x5 + 5) \div 10)

TruncatedContrast(p) ==
    LET x5 == ContrastTimes5(p)
    IN  ClampByte(IF x5 < 0 THEN 0 ELSE x5 \div 5)

\* C10: the Contrast filter maps every byte p to
\* clamp(round((p - 128) * 1.2 + 128), 0, 255), rounding to nearest.
C10_ContrastRounds ==
    blk.op = "contrast" =>
        \A i \in 1..Len(blk.data) : blk.data[i] = RoundedContrast(blk.prev[i])

\* C10 as amended: the Contrast filter truncates toward zero: it maps p to
\* clamp(trunc(x), 0, 255) when x = (p - 128) * 1.2 + 128 is not an integer,
\* and to clamp(x) or clamp(x - 1) when x is an integer.
C10_ContrastTruncates ==
    blk.op = "contrast" =>
        /\ Len(blk.data) = Len(blk.prev)
        /\ \A i \in 1..Len(blk.data) :
               LET x5 == ContrastTimes5(blk.prev[i])
               IN  IF x5 % 5 = 0
                   THEN blk.data[i] \in {ClampByte(x5 \div 5),
                                         ClampByte(x5 \div 5 - 1)}
                   ELSE blk.data[i] = TruncatedContrast(blk.prev[i])

\* Contrast applied to a byte where truncation and rounding differ
C10_Witness ==
    /\ blk.op = "contrast"
    /\ \E i \in 1..Len(blk.data) :
           /\ ContrastTimes5(blk.prev[i]) % 5 # 0
           /\ blk.data[i] # RoundedContrast(blk.prev[i])

\* ------------------------------------------------------------------ C11
\* C11: Brightness maps every byte p to min(p + 50, 255), Contrast maps it
\* into 0..255, and both are monotonic non-decreasing (p <= q implies
\* filter(p) <= filter(q)); no output wraps around modulo 256.
C11_ClampedAndMonotonic ==
    blk.op \in {"brightness", "contrast"} =>
        /\ Len(blk.data) = Len(blk.prev)
        /\ \A i \in 1..Len(blk.data) :
               /\ blk.data[i] \in 0..255
               /\ blk.op = "brightness" =>
                      blk.data[i] = (IF blk.prev[i] + 50 < 255
                                     THEN blk.prev[i] + 50 ELSE 255)
               /\ blk.data[i] >= (IF blk.op = "brightness" THEN blk.prev[i]
                                  ELSE 0)
               \* the byte next above p is not mapped below p's image
               /\ blk.prev[i] < 255 =>
                      blk.data[i] <= FilterByte(blk.prev[i] + 1, blk.op)
        /\ \A i, j \in 1..Len(blk.data) :
               blk.prev[i] <= blk.prev[j] => blk.data[i] <= blk.data[j]

\* Brightness applied to a block with a byte above 205 and a byte below it
C11_Witness ==
    /\ blk.op = "brightness"
    /\ \E i, j \in 1..Len(blk.data) :
           /\ blk.prev[i] > 205
           /\ blk.prev[j] < 205
           /\ blk.data[i] = 255

\* ------------------------------------------------------------------ C12
\* C12: for every filter kind other than exactly "invert", "brightness" and
\* "contrast", the empty string included, apply_filter leaves every byte of
\* the block unchanged.
C12_UnknownKindIsIdentity ==
    (blk.op \in FilterKinds \ Recognised) => blk.data = blk.prev

\* apply_filter with the kind "Invert" on a block of two bytes or more
C12_Witness ==
    /\ blk.op = "Invert"
    /\ Len(blk.data) >= 2

\* ------------------------------------------------------------------ C13
\* C13: for every rank r the byte count it computes for its own input block
\* equals sendCounts[r] and localOutHeight_r * width * channels equals
\* recvCounts[r]; displs and recvDispls are the prefix sums of sendCounts and
\* recvCounts; displs[r] = startRow_r * width * channels, where
\* startRow_r = r * base + min(r, remainder).
C13_TablesAgreeWithRanks ==
    (PlanAllDone /\ plan.sent /\ plan.received) =>
        LET L == plan.local
            n == plan.size
            rowBytes == plan.width * plan.channels
            base == plan.height \div n
            remainder == plan.height % n
        IN  /\ \A r \in PlanRanks :
                   /\ L[r].localInBytes = plan.sendCounts[r + 1]
                   /\ L[r].localOutHeight * rowBytes = plan.recvCounts[r + 1]
                   /\ plan.displs[r + 1] = L[r].startRow * rowBytes
                   /\ L[r].startRow =
                          r * base + (IF r < remainder THEN r ELSE remainder)
            /\ plan.displs[1] = 0
            /\ plan.recvDispls[1] = 0
            /\ \A i \in 1..(n - 1) :
                   /\ plan.displs[i + 1] = plan.displs[i] + plan.sendCounts[i]
                   /\ plan.recvDispls[i + 1] =
                          plan.recvDispls[i] + plan.recvCounts[i]

\* three ranks or more with an uneven split and a height change, every rank
\* and both table loops finished
C13_Witness ==
    /\ PlanAllDone
    /\ plan.sent
    /\ plan.received
    /\ plan.size >= 3
    /\ plan.height % plan.size # 0
    /\ plan.newHeight >= 1
    /\ plan.newHeight # plan.height
    /\ plan.recvDispls[plan.size] > 0
    /\ plan.displs[plan.size] > plan.displs[2]

\* ------------------------------------------------------------------ C14
RECURSIVE SumOutRows(_)
SumOutRows(n) ==
    IF n = 0 THEN 0 ELSE SumOutRows(n - 1) + plan.local[n - 1].localOutHeight

\* C14: for every height >= 1, newHeight >= 0 and size >= 1, the output row
\* counts floor(newHeight * localInHeight_i / height) of the ranks sum to at
\* most newHeight and to at least newHeight - (size - 1).
C14_OutputRowSumBounds ==
    PlanAllDone =>
        /\ SumOutRows(plan.size) <= plan.newHeight
        /\ SumOutRows(plan.size) >= plan.newHeight - (plan.size - 1)
        /\ \A r \in PlanRanks :
               plan.local[r].localOutHeight * plan.height
                   <= plan.newHeight * plan.local[r].localInHeight

\* every rank has computed its output row count and the sum falls short of
\* newHeight by the most the bound allows
C14_Witness ==
    /\ PlanAllDone
    /\ plan.size >= 3
    /\ SumOutRows(plan.size) = plan.newHeight - (plan.size - 1)

\* ------------------------------------------------------------------ C15
\* the ranks that have left the five broadcasts and compute their partition
PastBcast(r) == pc[r] \in {"scatter", "gather", "write", "done", "crashed"}

\* C15: when a rank computes its partition, its width, height, channels,
\* newWidth and newHeight equal the values rank 0 holds after the decode and
\* the defaulting of the requested size; no rank computes its partition from
\* the zero values the variables start with.
C15_PartitionFromRootValues ==
    \A r \in Ranks :
        PastBcast(r) =>
            /\ pc[0] \notin {"read", "aborted"}
            /\ width[r] = width[0] /\ width[0] = raw.w
            /\ height[r] = height[0] /\ height[0] = raw.h
            /\ channels[r] = channels[0] /\ channels[0] = raw.c
            /\ newWidth[r] = newWidth[0]
            /\ newHeight[r] = newHeight[0]
            /\ width[r] >= 1 /\ height[r] >= 1 /\ channels[r] >= 1
            /\ newWidth[r] >= 1 /\ newHeight[r] >= 1
            /\ pc[r] # "scatter" =>
                   /\ localInHeight[r] = LocalInHeight(r, raw.h, size)
                   /\ startRow[r] = StartRow(r, raw.h, size)

\* a rank other than 0 has computed its partition of an image whose height
\* the request changes
C15_Witness ==
    \E r \in Ranks :
        /\ r # 0
        /\ pc[r] = "gather"
        /\ newHeight[r] # height[r]
        /\ localInHeight[r] >= 1

\* ------------------------------------------------------------------ C16
\* the bytes of rank r's gathered block that lie inside the receive buffer
\* are in the buffer at the rank's offset
BlockInBuffer(r) ==
    \A j \in 1..Len(gatherNet[r]) :
        recvDispls[r + 1] + j <= Len(fullImage) =>
            fullImage[recvDispls[r + 1] + j] = gatherNet[r][j]

\* C16: in every interleaving no rank resamples before it has received its
\* scattered input block, and rank 0 does not encode and write the output
\* before the output block of every rank has been gathered.
C16_ScatterBeforeResizeGatherBeforeWrite ==
    /\ \A r \in Ranks :
           (r \in gathered \/ pc[r] \in {"gather", "write", "done"}) =>
               /\ scattered
               /\ localIn[r] = scatterNet[r]
               /\ localIn[r] =
                      SubSeq(raw.data,
                             startRow[r] * raw.w * raw.c + 1,
                             (startRow[r] + localInHeight[r]) * raw.w * raw.c)
    /\ (pc[0] \in {"write", "done"} \/ outFile # <<>>) =>
           /\ gathered = Ranks
           /\ \A r \in Ranks : r # 0 => pc[r] = "done"
           /\ \A r \in Ranks : gatherNet[r] =
                  SubSeq(localResized[r], 1,
                         localOutHeight[r] * width[r] * channels[r])
           /\ \A r \in Ranks : BlockInBuffer(r)

\* the output is written in a run of three ranks, each with rows to resample
C16_Witness ==
    /\ size = 3
    /\ Len(outFile) = 1
    /\ \A r \in Ranks : Len(gatherNet[r]) >= 1

\* ------------------------------------------------------------------ C17
\* C17: when the request is newWidth = 0 and newHeight = 0 and the filter
\* kind is unrecognised, then for every number of ranks, also one above the
\* image height, the written output equals the decoded input byte for byte,
\* with the original width and height.
C17_DefaultRequestCopiesImage ==
    (/\ newWidth[0] = raw.w
     /\ newHeight[0] = raw.h
     /\ filterType[0] \notin Recognised) =>
        /\ pc[0] # "crashed"
        /\ pc[0] \in {"write", "done"} => fullImage = raw.data
        /\ outFile # <<>> =>
               outFile = <<[w |-> raw.w, h |-> raw.h, c |-> raw.c,
                            data |-> raw.data]>>

\* three ranks, a two-row image, the default size, an unrecognised filter,
\* the output written
C17_Witness ==
    /\ size = 3
    /\ raw.h = 2
    /\ raw.w = 2
    /\ newWidth[0] = raw.w
    /\ newHeight[0] = raw.h
    /\ filterType[0] = "blur"
    /\ Len(outFile) = 1
    /\ \A r \in Ranks : pc[r] = "done"

\* ------------------------------------------------------------------ C18
\* C18: for every width, height, channels, newWidth, newHeight and size of
\* at least 1, the gather block of every rank lies inside the receive
\* buffer: recvDispls[i] + recvCounts[i] <= newWidth * newHeight * channels.
C18_GatherWithinBuffer ==
    (0 \in gathered) =>
        /\ Len(fullImage) = newWidth[0] * newHeight[0] * channels[0]
        /\ \A i \in 1..size :
               recvDispls[i] + recvCounts[i]
                   <= newWidth[0] * newHeight[0] * channels[0]

\* ------------------------------------------------------------------ C19
\* C19: the width handed to the encoder equals the width used as the row
\* stride of every rank's output block and of the gather byte counts, for
\* every requested target width.
C19_EncoderWidthIsRowStride ==
    outFile # <<>> =>
        \A r \in Ranks :
            /\ outFile[1].w = width[r]
            /\ Len(gatherNet[r]) = localOutHeight[r] * outFile[1].w * channels[r]
            /\ recvCounts[r + 1] = localOutHeight[r] * outFile[1].w * channels[0]

\* ------------------------------------------------------------------ C20
\* C20: in resize_rows, for every inHeight >= 1, outHeight >= 1 and output
\* row y in [0, outHeight), the source row floor(y * inHeight / outHeight)
\* lies in [0, inHeight) and is non-decreasing in y, and every byte index
\* read from the input is below width * inHeight * channels.
C20_SourceRowsInRange ==
    (blk.op = "resize" /\ blk.height >= 1 /\ blk.prevHeight >= 1) =>
        LET w   == blk.width
            ch  == blk.channels
            inH == blk.prevHeight
            src(y) == SrcRow(y, inH, blk.height)
        IN  /\ Len(blk.prev) = w * inH * ch
            /\ Len(blk.data) = w * blk.height * ch
            /\ \A y \in 0..(blk.height - 1) :
                   /\ 0 <= src(y)
                   /\ src(y) < inH
                   /\ y > 0 => src(y - 1) <= src(y)
                   /\ \A x \in 0..(w - 1), c \in 0..(ch - 1) :
                          /\ (src(y) * w + x) * ch + c < w * inH * ch
                          /\ blk.data[(y * w + x) * ch + c + 1] =
                                 blk.prev[(src(y) * w + x) * ch + c + 1]
            \* no byte of the output comes from a read outside the input
            /\ \A k \in 1..Len(blk.data) : blk.data[k] # -1

\* a block of two interleaved channels shrunk from four rows to three and
\* then stretched to four
C20_Witness ==
    /\ blk.op = "resize"
    /\ blk.width >= 1
    /\ blk.channels >= 2
    /\ blk.prevHeight = 3
    /\ blk.height = 4
    /\ blk.op2 = "resize"
    /\ Len(blk.prev2) > Len(blk.prev)

====
